---- MODULE Spec2Model ----
(***************************************************************************)
(* Verification model of the jacobian-saes repository's runnable pieces:   *)
(*   - the toy-model notebook's closed-form Jacobian (get_jacobian_slow,   *)
(*     get_jacobian_fast) over small integer tensors            (SpecJac)  *)
(*   - hpc_utils/extract_args, the argparse wrapper             (SpecArgs) *)
(*   - the wandb artifact download script                       (SpecDl)   *)
(*   - the zsh script that syncs the code to BluePebble         (SpecSync) *)
(*   - the MLPWithActGrads notebook                             (SpecAg)   *)
(*   - the SAE / MLP / SAE pipelines of the notebooks           (SpecSw)   *)
(* Tensors are functions over 1..n; strings are TLA+ strings.              *)
(***************************************************************************)
EXTENDS Integers, Sequences, FiniteSets, TLC

VARIABLES
    \* ---- toy-model notebook ----
    sae,            \* SAE parameters: W_enc, b_enc, W_dec, b_dec
    mlp,            \* MLP parameters: W_in, b_in, W_out, b_out
    random_input,   \* the batch: n_tokens x d_resid
    wd1, w2e,       \* notebook globals of cell 9
    jacobian1,      \* result of get_jacobian_slow (cell 10)
    jacobian2,      \* result of get_jacobian_fast (cell 11)
    slow_locals,    \* locals of the get_jacobian_slow call
    fast_locals,    \* locals of the get_jacobian_fast call
    nb_pc,          \* next notebook cell to run
    \* ---- hpc_utils/extract_args ----
    argv,           \* sys.argv[1:]
    args,           \* the argparse Namespace
    remaining_args, \* the unrecognised arguments
    gpu_flag,
    stdout,         \* lines printed on standard output
    exit_code,      \* None while running
    ea_pc,          \* next statement of extract_args
    \* ---- wandb artifact download script ----
    project,        \* the artifacts stored in the wandb project
    type_idx,       \* position of the type_names loop
    colls,          \* collections the loop over colls has yet to visit
    artifacts,      \* artifacts the innermost loop has yet to visit
    called,         \* artifacts download() was called on, in call order
    downloaded,     \* artifacts whose download() returned
    in_progress,    \* artifacts whose download() was called and has not ended
    dl_stdout,      \* lines printed
    dl_pc,          \* next statement of the download script
    \* ---- sync script ----
    typed,          \* what the user types at the prompt (or end of input)
    response,       \* $response
    rsync_started,  \* rsync has been started
    sync_stdout,    \* what the script itself has written on standard output
    sync_exit,      \* exit status, None while running
    sync_pc,        \* next command of the sync script
    \* ---- MLPWithActGrads notebook ----
    ag_cfg,              \* original_mlp.cfg
    ag_grad_mode,        \* torch.is_grad_enabled()
    ag_state_dict,       \* original_mlp.state_dict(): W_in, b_in, W_out, b_out
    resid_mid,           \* the input x
    return_act_grads,    \* the argument of the mlp_with_grads call
    original_resid_post, \* original_mlp(resid_mid)
    ag_result,           \* what the mlp_with_grads call returned or raised
    ag_pc,               \* next statement of the notebook
    \* ---- SAE / MLP / SAE pipelines ----
    sw_pipeline,    \* which pipeline runs
    sw_sae1,        \* the SAE before the MLP
    sw_sae2,        \* the SAE after the MLP
    sw_mlp,         \* the MLP
    sw_acts,        \* the original activations
    sw_change,      \* a change made to the first SAE's latents
    sw_acts1,       \* the first SAE's latents: as computed, and changed
    sw_act_reconstr, \* the first SAE's reconstruction, for each of the two
    sw_mlp_in,      \* what the MLP receives, for each of the two
    sw_mlp_out,     \* what the MLP returns, for each of the two
    sw_acts2,       \* the second SAE's activations, for each of the two
    sw_pc           \* next statement of the pipeline

jacVars == <<sae, mlp, random_input, wd1, w2e, jacobian1, jacobian2,
             slow_locals, fast_locals, nb_pc>>

eaVars == <<argv, args, remaining_args, gpu_flag, stdout, exit_code, ea_pc>>

dlVars == <<project, type_idx, colls, artifacts, called, downloaded, in_progress,
           dl_stdout, dl_pc>>

syncVars == <<typed, response, rsync_started, sync_stdout, sync_exit, sync_pc>>

agVars == <<ag_cfg, ag_grad_mode, ag_state_dict, resid_mid, return_act_grads,
           original_resid_post, ag_result, ag_pc>>

swVars == <<sw_pipeline, sw_sae1, sw_sae2, sw_mlp, sw_acts, sw_change, sw_acts1,
           sw_act_reconstr, sw_mlp_in, sw_mlp_out, sw_acts2, sw_pc>>

vars == <<jacVars, eaVars, dlVars, syncVars, agVars, swVars>>

None == "None"

\* the variables of a program that is not the one being run
EaIdle ==
    /\ argv = <<>> /\ args = None /\ remaining_args = <<>> /\ gpu_flag = None
    /\ stdout = <<>> /\ exit_code = None /\ ea_pc = "idle"

DlIdle ==
    /\ project = {} /\ type_idx = 0 /\ colls = <<>> /\ artifacts = <<>>
    /\ called = <<>> /\ downloaded = {} /\ in_progress = {}
    /\ dl_stdout = <<>> /\ dl_pc = "idle"

SyncIdle ==
    /\ typed = None /\ response = "" /\ rsync_started = FALSE
    /\ sync_stdout = "" /\ sync_exit = None /\ sync_pc = "idle"

AgIdle ==
    /\ ag_cfg = None /\ ag_grad_mode = None /\ ag_state_dict = None /\ resid_mid = None
    /\ return_act_grads = None /\ original_resid_post = None /\ ag_result = None
    /\ ag_pc = "idle"

SwIdle ==
    /\ sw_pipeline = None /\ sw_sae1 = None /\ sw_sae2 = None /\ sw_mlp = None
    /\ sw_acts = None /\ sw_change = None /\ sw_acts1 = None /\ sw_mlp_in = None
    /\ sw_act_reconstr = None /\ sw_mlp_out = None
    /\ sw_acts2 = None /\ sw_pc = "idle"

JacIdle ==
    /\ sae = None /\ mlp = None /\ random_input = None /\ wd1 = None /\ w2e = None
    /\ jacobian1 = None /\ jacobian2 = None /\ slow_locals = None
    /\ fast_locals = None /\ nb_pc = "idle"

---------------------------------------------------------------------------
(* Bounds of the toy model.  The notebook uses d_resid = 768, d_mlp = 3072, *)
(* d_sae = 64 * d_resid, k = 32, n_tokens = 64; the model scales them down. *)
d_resid == 2
d_mlp == 2
d_sae == 3
k == 2
n_tokens == 1
MaxSeed == 2

Abs(x) == IF x < 0 THEN -x ELSE x

RECURSIVE SumTo(_, _)
\* sum of f[1] .. f[n]
SumTo(f, n) == IF n = 0 THEN 0 ELSE f[n] + SumTo(f, n - 1)

\* torch.randn(rows, cols): one of a family of small integer matrices,
\* selected by the generator state `seed`; entries in -2..2.
Randn(seed, rows, cols) ==
    [i \in 1..rows |-> [j \in 1..cols |->
        ((j * (seed + i) + seed * seed) % 5) - 2]]

RECURSIVE Tabulate(_, _)
\* the tensor <<f[1], ..., f[n]>>
Tabulate(f, n) == IF n = 0 THEN <<>> ELSE Append(Tabulate(f, n - 1), f[n])

\* torch.zeros(n)
Zeros(n) == [i \in 1..n |-> 0]

\* F.linear(x, W, b): x is (n, in), W is (out, in), b is (out)
Linear(x, W, b) ==
    Tabulate([t \in DOMAIN x |-> Tabulate([o \in DOMAIN W |->
        SumTo([i \in DOMAIN W[o] |-> x[t][i] * W[o][i]], Len(W[o])) + b[o]], Len(W))],
        Len(x))

\* A.T @ B.T for A (r, a) and B (b, r): result (a, b)
TransposeMatmul(A, B, a, b) ==
    [i \in 1..a |-> [j \in 1..b |->
        SumTo([r \in DOMAIN A |-> A[r][i] * B[j][r]], Len(A))]]

\* torch.topk(row, k) indices: k distinct positions holding the k largest
\* values, in descending order of value.  The order among equal values is
\* not specified by torch, so every consistent order is a possible result.
TopKRow(row) ==
    {p \in [1..k -> DOMAIN row] :
        /\ \A a, b \in 1..k : a # b => p[a] # p[b]
        /\ \A a \in 1..(k - 1) : row[p[a]] >= row[p[a + 1]]
        /\ \A s \in DOMAIN row :
              (\A a \in 1..k : p[a] # s) => row[s] <= row[p[k]]}

\* SAE.encode pre-activations: F.linear(x, W_enc, b_enc)
EncodeActs(s, x) == Linear(x, s.W_enc, s.b_enc)

\* the topk.indices SAE.encode may return for a batch
EncodeIndices(s, x) ==
    LET rows == [t \in DOMAIN x |-> TopKRow(EncodeActs(s, x)[t])]
    IN  {idx \in [DOMAIN x -> UNION {rows[t] : t \in DOMAIN x}] :
            \A t \in DOMAIN x : idx[t] \in rows[t]}

\* the topk.values SAE.encode returns with indices idx
EncodeValues(s, x, idx) ==
    LET acts == EncodeActs(s, x)
    IN  Tabulate([t \in DOMAIN x |-> Tabulate([j \in 1..k |-> acts[t][idx[t][j]]], k)],
                 Len(x))

\* x = zeros(n, d_sae); x.scatter_(1, indices, latents)
Scatter(latents, indices) ==
    Tabulate([t \in DOMAIN latents |-> Tabulate([s \in 1..d_sae |->
        IF \E j \in 1..k : indices[t][j] = s
        THEN latents[t][CHOOSE j \in 1..k : indices[t][j] = s]
        ELSE 0], d_sae)], Len(latents))

\* SAE.decode
Decode(s, latents, indices) == Linear(Scatter(latents, indices), s.W_dec, s.b_dec)

\* MLP.forward pre-activation
MlpPre(m, x) == Linear(x, m.W_in, m.b_in)

\* nn.ReLU
Relu(x) == IF x > 0 THEN x ELSE 0

\* autograd of post = ReLU(pre) with grad_outputs = ones: 1 where pre > 0
ReluGrad(x) == IF x > 0 THEN 1 ELSE 0

\* MLP.forward(x, return_grad_of_act=True): (out, grad_of_act)
MlpForward(m, x) ==
    LET pre  == MlpPre(m, x)
        post == Tabulate([t \in DOMAIN pre |->
                    Tabulate([j \in DOMAIN pre[t] |-> Relu(pre[t][j])], Len(pre[t]))],
                    Len(pre))
    IN  [out |-> Linear(post, m.W_out, m.b_out),
         grad_of_act |->
             Tabulate([t \in DOMAIN pre |->
                 Tabulate([j \in DOMAIN pre[t] |-> ReluGrad(pre[t][j])], Len(pre[t]))],
                 Len(pre))]

\* wd1[topk_indices1]: (n_tokens, k, d_mlp)
GatherRows(w, indices) ==
    [t \in DOMAIN indices |-> [j \in 1..k |-> w[indices[t][j]]]]

\* w2e[:, topk_indices2]: (d_mlp, n_tokens, k)
GatherCols(w, indices) ==
    [m \in DOMAIN w |-> [t \in DOMAIN indices |-> [j \in 1..k |-> w[m][indices[t][j]]]]]

\* a variation of Einsum with the output written 'seq_pos k1 k2', which C2
\* must reject
EinsumOutSwapped(A, g, C) ==
    [t \in DOMAIN A |-> [k1 \in 1..k |-> [k2 \in 1..k |->
        SumTo([m \in DOMAIN C |-> A[t][k1][m] * g[t][m] * C[m][t][k2]], Len(C))]]]

\* einops.einsum(A, g, C,
\*   "seq_pos k1 d_mlp, seq_pos d_mlp, d_mlp seq_pos k2 -> seq_pos k2 k1")
Einsum(A, g, C) ==
    [t \in DOMAIN A |-> [k2 \in 1..k |-> [k1 \in 1..k |->
        SumTo([m \in DOMAIN C |-> A[t][k1][m] * g[t][m] * C[m][t][k2]], Len(C))]]]

\* the triple loop of get_jacobian_slow, writing
\* jacobian[token_pos, input_k, output_k]
SlowLoop(lwd1, lw2e, idx1, grad, idx2) ==
    [t \in 1..n_tokens |-> [input_k \in 1..k |-> [output_k \in 1..k |->
        SumTo([m \in 1..d_mlp |->
                  lwd1[idx1[t][input_k]][m] * grad[t][m] * lw2e[m][idx2[t][output_k]]],
              d_mlp)]]]

\* torch.allclose(a, b, rtol=1e-5, atol=1e-1): |a - b| <= atol + rtol * |b|
\* everywhere, in units of 1e-5
AllClose(a, b) ==
    \A t \in 1..n_tokens, i, j \in 1..k :
        100000 * Abs(a[t][i][j] - b[t][i][j]) <= 10000 + Abs(b[t][i][j])

---------------------------------------------------------------------------
(* Notebook cells *)

\* cell 8: construct sae, mlp and the random batch
InitJac ==
    /\ \E s1, s2 \in 0..MaxSeed :
          sae = [W_enc |-> Randn(s1, d_sae, d_resid), b_enc |-> Zeros(d_sae),
                 W_dec |-> Randn(s2, d_resid, d_sae), b_dec |-> Zeros(d_resid)]
    /\ \E s3, s4 \in 0..MaxSeed :
          mlp = [W_in  |-> Randn(s3, d_mlp, d_resid), b_in  |-> Zeros(d_mlp),
                 W_out |-> Randn(s4, d_resid, d_mlp), b_out |-> Zeros(d_resid)]
    /\ \E s5 \in 0..MaxSeed : random_input = Randn(s5, n_tokens, d_resid)
    /\ wd1 = None /\ w2e = None
    /\ jacobian1 = None /\ jacobian2 = None
    /\ slow_locals = None /\ fast_locals = None
    /\ nb_pc = "cell9"
    /\ EaIdle
    /\ DlIdle
    /\ SyncIdle /\ AgIdle /\ SwIdle

\* cell 9: the global products
Cell9 ==
    /\ nb_pc = "cell9"
    /\ wd1' = TransposeMatmul(sae.W_dec, mlp.W_in, d_sae, d_mlp)
    /\ w2e' = TransposeMatmul(mlp.W_out, sae.W_enc, d_mlp, d_sae)
    /\ nb_pc' = "cell10"
    /\ UNCHANGED <<sae, mlp, random_input, jacobian1, jacobian2, slow_locals, fast_locals>>
    /\ UNCHANGED <<eaVars, dlVars, syncVars, agVars, swVars>>

\* cell 10: jacobian1 = get_jacobian_slow(sae, mlp, random_input)
GetJacobianSlow ==
    /\ nb_pc = "cell10"
    /\ \E idx1 \in EncodeIndices(sae, random_input) :
        LET lwd1    == TransposeMatmul(sae.W_dec, mlp.W_in, d_sae, d_mlp)
            lw2e    == TransposeMatmul(mlp.W_out, sae.W_enc, d_mlp, d_sae)
            sae_out == Decode(sae, EncodeValues(sae, random_input, idx1), idx1)
            fwd     == MlpForward(mlp, sae_out)
        IN  \E idx2 \in EncodeIndices(sae, fwd.out) :
              /\ jacobian1' = SlowLoop(lwd1, lw2e, idx1, fwd.grad_of_act, idx2)
              /\ slow_locals' = [topk_indices1 |-> idx1, topk_indices2 |-> idx2]
    /\ nb_pc' = "cell11"
    /\ UNCHANGED <<sae, mlp, random_input, wd1, w2e, jacobian2, fast_locals>>
    /\ UNCHANGED <<eaVars, dlVars, syncVars, agVars, swVars>>

\* cell 11: jacobian2 = get_jacobian_fast(sae, mlp, random_input), then
\* assert torch.allclose(jacobian1, jacobian2, rtol=1e-5, atol=1e-1)
GetJacobianFast ==
    /\ nb_pc = "cell11"
    /\ \E idx1 \in EncodeIndices(sae, random_input) :
        LET sae_out == Decode(sae, EncodeValues(sae, random_input, idx1), idx1)
            fwd     == MlpForward(mlp, sae_out)
        IN  \E idx2 \in EncodeIndices(sae, fwd.out) :
              LET j2 == Einsum(GatherRows(wd1, idx1), fwd.grad_of_act,
                               GatherCols(w2e, idx2))
              IN  /\ jacobian2' = j2
                  /\ fast_locals' = [sae_out |-> sae_out, topk_indices1 |-> idx1,
                                     resid_post |-> fwd.out,
                                     mlp_act_grad |-> fwd.grad_of_act,
                                     topk_indices2 |-> idx2]
                  /\ nb_pc' = IF AllClose(jacobian1, j2) THEN "done" ELSE "AssertionError"
    /\ UNCHANGED <<sae, mlp, random_input, wd1, w2e, jacobian1, slow_locals>>
    /\ UNCHANGED <<eaVars, dlVars, syncVars, agVars, swVars>>

NextJac == Cell9 \/ GetJacobianSlow \/ GetJacobianFast

SpecJac == InitJac /\ [][NextJac]_vars

---------------------------------------------------------------------------
(* Claims about the toy-model notebook *)

FastRan == nb_pc \in {"done", "AssertionError"}

\* C1: for every batch and the same weights, get_jacobian_fast returns the
\* tensor get_jacobian_slow returns: same shape (n_tokens, k, k) and equal
\* entries at every index [token, i, j].  Stated for the runs in which both
\* calls made the same top-k selections (every run when no activations tie).
C1_FastEqualsSlow ==
    (FastRan
       /\ slow_locals.topk_indices1 = fast_locals.topk_indices1
       /\ slow_locals.topk_indices2 = fast_locals.topk_indices2)
    => /\ DOMAIN jacobian2 = DOMAIN jacobian1
       /\ \A t \in 1..n_tokens, i, j \in 1..k :
             jacobian2[t][i][j] = jacobian1[t][i][j]

\* C1, as the notebook asserts it: cell 11 never ends in an AssertionError.
C1_AssertPasses == nb_pc # "AssertionError"

\* decode -> MLP -> encode of one token's k latents: the pre-activation of
\* every SAE latent of the output
Composed(lat, idx) ==
    LET x   == Decode(sae, <<lat>>, <<idx>>)
        res == MlpForward(mlp, x).out
    IN  EncodeActs(sae, res)[1]

\* the largest absolute value of an entry of wd1
MaxAbsWd1 ==
    LET entries == {Abs(wd1[s][m]) : s \in 1..d_sae, m \in 1..d_mlp}
    IN  CHOOSE v \in entries : \A w \in entries : w <= v

\* The partial derivatives at token t of the selected output latents (k2)
\* with respect to the selected input latents (k1), as forward differences.
\* The composed map is positively homogeneous (all biases are zero), so its
\* derivative at the latents equals its derivative at N times the latents,
\* where a unit step crosses no ReLU kink once N exceeds every entry of wd1.
PartialDerivative(t) ==
    LET idx1 == fast_locals.topk_indices1[t]
        idx2 == fast_locals.topk_indices2[t]
        lat  == EncodeValues(sae, random_input, fast_locals.topk_indices1)[t]
        N    == MaxAbsWd1 + 1
        base == Composed([j \in 1..k |-> N * lat[j]], idx1)
        step == Tabulate([k1 \in 1..k |->
                    Composed([j \in 1..k |-> IF j = k1 THEN N * lat[j] + 1
                                                       ELSE N * lat[j]], idx1)], k)
    IN  Tabulate([k2 \in 1..k |->
            Tabulate([k1 \in 1..k |-> step[k1][idx2[k2]] - base[idx2[k2]]], k)], k)

\* every MLP pre-activation of token t is away from the ReLU kink
Differentiable(t) ==
    \A m \in 1..d_mlp : MlpPre(mlp, fast_locals.sae_out)[t][m] # 0

---------------------------------------------------------------------------
(* hpc_utils/extract_args: the argument parser *)

MaxArgs == 3

\* random.randint(1000, 9999) bounds
RandLo == 1000
RandHi == 9999

PlaceholderName == "jsae[UNIQUE-ID]"
DefaultQueue == "cnu"

\* Optional values (None or a string) are <<>> or <<s>>.
NoValue == <<>>

Char(s, i) == SubSeq(s, i, i)

StartsWith(s, p) == Len(p) <= Len(s) /\ SubSeq(s, 1, Len(p)) = p

Contains(s, c) == \E i \in 1..Len(s) : Char(s, i) = c

\* s.split(c, 1) of a string that contains c
SplitBefore(s, c) ==
    LET i == CHOOSE n \in 1..Len(s) :
                 Char(s, n) = c /\ \A j \in 1..(n - 1) : Char(s, j) # c
    IN  SubSeq(s, 1, i - 1)

SplitAfter(s, c) ==
    LET i == CHOOSE n \in 1..Len(s) :
                 Char(s, n) = c /\ \A j \in 1..(n - 1) : Char(s, j) # c
    IN  SubSeq(s, i + 1, Len(s))

Digits == <<"0", "1", "2", "3", "4", "5", "6", "7", "8", "9">>

IsDigit(c) == \E d \in 1..10 : Digits[d] = c

\* the parser's option strings, in registration order (add_help comes first)
OptionStringActions == <<
    [option_string |-> "-h",        dest |-> "help"],
    [option_string |-> "--help",    dest |-> "help"],
    [option_string |-> "--gputype", dest |-> "gputype"],
    [option_string |-> "--2080",    dest |-> "dest_2080"],
    [option_string |-> "--3090",    dest |-> "dest_3090"],
    [option_string |-> "--a100",    dest |-> "a100"],
    [option_string |-> "--80g",     dest |-> "dest_80g"],
    [option_string |-> "-n",        dest |-> "name"],
    [option_string |-> "--name",    dest |-> "name"],
    [option_string |-> "-q",        dest |-> "queue"],
    [option_string |-> "--queue",   dest |-> "queue"] >>

OptionStrings ==
    {OptionStringActions[i].option_string : i \in DOMAIN OptionStringActions}

ActionOf(option_string) ==
    OptionStringActions[CHOOSE i \in DOMAIN OptionStringActions :
        OptionStringActions[i].option_string = option_string].dest

\* the members of gpu_group (add_mutually_exclusive_group)
GpuGroup == {"gputype", "dest_2080", "dest_3090", "a100", "dest_80g"}

\* number of argument strings an action takes: store takes one, store_true
\* and help take none
Nargs(action) == IF action \in {"gputype", "name", "queue", "runner_script"} THEN 1 ELSE 0

\* Namespace built from the parser defaults (dest_2080, dest_3090 and dest_80g
\* are the dests _2080, _3090 and _80g)
DefaultNamespace ==
    [gputype |-> NoValue, dest_2080 |-> FALSE, dest_3090 |-> FALSE, a100 |-> FALSE,
     dest_80g |-> FALSE, runner_script |-> NoValue,
     name |-> PlaceholderName, queue |-> DefaultQueue]

NotOptional == [kind |-> "A", action |-> None, option_string |-> "", explicit_arg |-> NoValue]

OptionTuple(action, option_string, explicit_arg) ==
    [kind |-> "O", action |-> action, option_string |-> option_string,
     explicit_arg |-> explicit_arg]

\* ArgumentParser._get_option_tuples (allow_abbrev is on)
GetOptionTuples(option_string) ==
    IF Char(option_string, 2) = "-"
    THEN LET has_eq == Contains(option_string, "=")
             option_prefix == IF has_eq THEN SplitBefore(option_string, "=")
                              ELSE option_string
             explicit_arg == IF has_eq THEN <<SplitAfter(option_string, "=")>>
                             ELSE NoValue
         IN  {OptionTuple(ActionOf(o), o, explicit_arg) :
                 o \in {x \in OptionStrings : StartsWith(x, option_prefix)}}
    ELSE LET short_option_prefix == SubSeq(option_string, 1, 2)
             short_explicit_arg == SubSeq(option_string, 3, Len(option_string))
         IN  {OptionTuple(ActionOf(o), o, <<short_explicit_arg>>) :
                 o \in {x \in OptionStrings : x = short_option_prefix}}
             \cup
             {OptionTuple(ActionOf(o), o, NoValue) :
                 o \in {x \in OptionStrings :
                          x # short_option_prefix /\ StartsWith(x, option_string)}}

\* _negative_number_matcher: '^-\d+$|^-\d*\.\d+$'
IsNegativeNumber(s) ==
    /\ Len(s) >= 2
    /\ Char(s, 1) = "-"
    /\ \/ \A i \in 2..Len(s) : IsDigit(Char(s, i))
       \/ \E p \in 2..(Len(s) - 1) :
             /\ Char(s, p) = "."
             /\ \A i \in 2..Len(s) : i # p => IsDigit(Char(s, i))

\* ArgumentParser._parse_optional
ParseOptional(arg_string) ==
    IF arg_string = "" THEN NotOptional
    ELSE IF Char(arg_string, 1) # "-" THEN NotOptional
    ELSE IF arg_string \in OptionStrings
         THEN OptionTuple(ActionOf(arg_string), arg_string, NoValue)
    ELSE IF Len(arg_string) = 1 THEN NotOptional
    ELSE IF Contains(arg_string, "=") /\ SplitBefore(arg_string, "=") \in OptionStrings
         THEN OptionTuple(ActionOf(SplitBefore(arg_string, "=")),
                          SplitBefore(arg_string, "="),
                          <<SplitAfter(arg_string, "=")>>)
    ELSE LET option_tuples == GetOptionTuples(arg_string)
         IN  IF Cardinality(option_tuples) > 1
             THEN [NotOptional EXCEPT !.kind = "ambiguous"]
             ELSE IF Cardinality(option_tuples) = 1
             THEN CHOOSE t \in option_tuples : TRUE
             ELSE IF IsNegativeNumber(arg_string) THEN NotOptional
             ELSE IF Contains(arg_string, " ") THEN NotOptional
             ELSE OptionTuple(None, arg_string, NoValue)

\* index of the first '--', or Len + 1
FirstDashDash(a) ==
    IF \E i \in 1..Len(a) : a[i] = "--"
    THEN CHOOSE i \in 1..Len(a) : a[i] = "--" /\ \A j \in 1..(i - 1) : a[j] # "--"
    ELSE Len(a) + 1

\* arg_strings_pattern: 'O' for an option, 'A' for an argument, '-' for the
\* first '--'; everything after the first '--' is an argument
ArgStringsPattern(a) ==
    [i \in 1..Len(a) |->
        IF i > FirstDashDash(a) THEN "A"
        ELSE IF i = FirstDashDash(a) THEN "-"
        ELSE IF ParseOptional(a[i]).kind = "A" THEN "A" ELSE "O"]

\* parser.error while the pattern is built: an ambiguous abbreviation
AmbiguousOption(a) ==
    \E i \in 1..Len(a) : i < FirstDashDash(a) /\ ParseOptional(a[i]).kind = "ambiguous"

RECURSIVE DashRun(_, _)
\* number of consecutive '-' in the pattern from index i
DashRun(pat, i) ==
    IF i <= Len(pat) /\ pat[i] = "-" THEN 1 + DashRun(pat, i + 1) ELSE 0

\* re.match of the positional's nargs pattern '(-*A-*)' at index i: the
\* length matched, or -1 for no match
MatchPositional(pat, i) ==
    LET lead == DashRun(pat, i)
    IN  IF i + lead <= Len(pat) /\ pat[i + lead] = "A"
        THEN lead + 1 + DashRun(pat, i + lead + 1)
        ELSE -1

\* _match_argument of an optional at index i: '--' is not allowed in an
\* optional's pattern, which is '(A)' for one argument and '()' for none
MatchArgument(action, pat, i) ==
    IF Nargs(action) = 0 THEN 0
    ELSE IF i <= Len(pat) /\ pat[i] = "A" THEN 1
    ELSE -1

\* _get_values: strip out the first '--'
RemoveFirstDashDash(strings) ==
    IF \E i \in 1..Len(strings) : strings[i] = "--"
    THEN LET i == FirstDashDash(strings)
         IN  SubSeq(strings, 1, i - 1) \o SubSeq(strings, i + 1, Len(strings))
    ELSE strings

\* the Action's __call__: store, store_true
StoreValue(ns, action, values) ==
    CASE action = "gputype"       -> [ns EXCEPT !.gputype = <<values[1]>>]
      [] action = "runner_script" -> [ns EXCEPT !.runner_script = <<values[1]>>]
      [] action = "name"          -> [ns EXCEPT !.name = values[1]]
      [] action = "queue"         -> [ns EXCEPT !.queue = values[1]]
      [] action = "dest_2080"         -> [ns EXCEPT !.dest_2080 = TRUE]
      [] action = "dest_3090"         -> [ns EXCEPT !.dest_3090 = TRUE]
      [] action = "a100"          -> [ns EXCEPT !.a100 = TRUE]
      [] action = "dest_80g"          -> [ns EXCEPT !.dest_80g = TRUE]

\* a variation of GroupConflict for a parser without the exclusive group,
\* which C6 must reject
GroupConflictIgnored(st, action) == FALSE

\* take_action's mutual-exclusion test: another member of the action's group
\* was seen with a non-default value
GroupConflict(st, action) ==
    /\ action \in GpuGroup
    /\ \E c \in GpuGroup \ {action} : c \in st.seen_non_default_actions

\* take_action of _parse_known_args
TakeAction(st, action, argument_strings) ==
    IF st.status # "running" THEN st
    ELSE IF GroupConflict(st, action) THEN [st EXCEPT !.status = "error"]
    ELSE IF action = "help" THEN [st EXCEPT !.status = "help"]
    ELSE [st EXCEPT
            !.seen_actions = @ \cup {action},
            !.seen_non_default_actions = @ \cup {action},
            !.namespace = StoreValue(@, action, RemoveFirstDashDash(argument_strings))]

RECURSIVE TakeActions(_, _, _)
TakeActions(st, action_tuples, j) ==
    IF j > Len(action_tuples) THEN st
    ELSE TakeActions(TakeAction(st, action_tuples[j].action, action_tuples[j].args),
                     action_tuples, j + 1)

RECURSIVE OptionalTuples(_, _, _, _, _)
\* the while loop of consume_optional at index i: the action tuples found in
\* one argument string, and the index at which its arguments stop
OptionalTuples(a, pat, i, tup, acc) ==
    IF tup.action = None THEN [result |-> "extra", tuples |-> acc, stop |-> i + 1]
    ELSE IF tup.explicit_arg # NoValue
    THEN LET explicit_arg == tup.explicit_arg[1]
             arg_count == Nargs(tup.action)
         IN  IF arg_count = 0 /\ Char(tup.option_string, 2) # "-" /\ explicit_arg # ""
             THEN LET option_string == "-" \o Char(explicit_arg, 1)
                      new_explicit_arg == IF Len(explicit_arg) > 1
                                          THEN <<SubSeq(explicit_arg, 2, Len(explicit_arg))>>
                                          ELSE NoValue
                  IN  IF option_string \in OptionStrings
                      THEN OptionalTuples(a, pat, i,
                               OptionTuple(ActionOf(option_string), option_string,
                                           new_explicit_arg),
                               Append(acc, [action |-> tup.action, args |-> <<>>]))
                      ELSE [result |-> "error", tuples |-> acc, stop |-> i]
             ELSE IF arg_count = 1
             THEN [result |-> "ok",
                   tuples |-> Append(acc, [action |-> tup.action, args |-> <<explicit_arg>>]),
                   stop |-> i + 1]
             ELSE [result |-> "error", tuples |-> acc, stop |-> i]
    ELSE LET arg_count == MatchArgument(tup.action, pat, i + 1)
         IN  IF arg_count = -1
             THEN [result |-> "error", tuples |-> acc, stop |-> i]
             ELSE [result |-> "ok",
                   tuples |-> Append(acc, [action |-> tup.action,
                                           args |-> SubSeq(a, i + 1, i + arg_count)]),
                   stop |-> i + 1 + arg_count]

\* consume_optional(start_index)
ConsumeOptional(a, pat, st) ==
    LET r == OptionalTuples(a, pat, st.start_index, ParseOptional(a[st.start_index]), <<>>)
    IN  IF r.result = "extra"
        THEN [st EXCEPT !.extras = Append(@, a[st.start_index]), !.start_index = r.stop]
        ELSE IF r.result = "error" THEN [st EXCEPT !.status = "error"]
        ELSE TakeActions([st EXCEPT !.start_index = r.stop], r.tuples, 1)

\* consume_positionals(start_index): runner_script is the only positional
ConsumePositionals(a, pat, st) ==
    IF st.positionals = <<>> THEN st
    ELSE LET arg_count == MatchPositional(pat, st.start_index)
         IN  IF arg_count = -1 THEN st
             ELSE TakeAction([st EXCEPT !.positionals = Tail(@),
                                        !.start_index = @ + arg_count],
                             st.positionals[1],
                             SubSeq(a, st.start_index, st.start_index + arg_count - 1))

\* max(option_string_indices), 0 when there is none
MaxOptionStringIndex(pat) ==
    IF \E i \in 1..Len(pat) : pat[i] = "O"
    THEN CHOOSE i \in 1..Len(pat) : pat[i] = "O" /\ \A j \in (i + 1)..Len(pat) : pat[j] # "O"
    ELSE 0

NextOptionStringIndex(pat, start) ==
    CHOOSE i \in start..Len(pat) : pat[i] = "O" /\ \A j \in start..(i - 1) : pat[j] # "O"

RECURSIVE ConsumeLoop(_, _, _)
\* "consume Positionals and Optionals alternately, until we have passed the
\* last option string"
ConsumeLoop(a, pat, st) ==
    IF st.status # "running" \/ st.start_index > MaxOptionStringIndex(pat) THEN st
    ELSE LET next == NextOptionStringIndex(pat, st.start_index)
             st1  == IF st.start_index # next THEN ConsumePositionals(a, pat, st) ELSE st
         IN  IF st1.status # "running" THEN st1
             ELSE IF st1.start_index > st.start_index THEN ConsumeLoop(a, pat, st1)
             ELSE LET st2 == IF pat[st1.start_index] # "O"
                             THEN [st1 EXCEPT
                                     !.extras = @ \o SubSeq(a, st1.start_index, next - 1),
                                     !.start_index = next]
                             ELSE st1
                  IN  ConsumeLoop(a, pat, ConsumeOptional(a, pat, st2))

\* parser.parse_known_args(): the namespace and the extras, or an exit
ParseKnownArgs(a) ==
    LET pat  == ArgStringsPattern(a)
        st0  == [namespace |-> DefaultNamespace, seen_actions |-> {},
                 seen_non_default_actions |-> {}, positionals |-> <<"runner_script">>,
                 extras |-> <<>>, start_index |-> 1, status |-> "running"]
        st1  == ConsumeLoop(a, pat, st0)
        st2  == ConsumePositionals(a, pat, st1)
        st3  == [st2 EXCEPT !.extras = @ \o SubSeq(a, st2.start_index, Len(a))]
    IN  IF AmbiguousOption(a) THEN [st0 EXCEPT !.status = "error"]
        ELSE IF st1.status # "running" THEN st1
        ELSE IF "runner_script" \notin st3.seen_actions THEN [st3 EXCEPT !.status = "error"]
        ELSE [st3 EXCEPT !.status = "ok"]

---------------------------------------------------------------------------
(* hpc_utils/extract_args: the script *)

RECURSIVE IntToStr(_)
\* str(n) of a non-negative integer, as an f-string formats it
IntToStr(n) ==
    IF n < 10 THEN Digits[n + 1]
    ELSE IntToStr(n \div 10) \o Digits[(n % 10) + 1]

\* a variation of Randint that leaves the range, which C8 must reject
RandintOffByOne(lo, hi) == {lo - 1, hi + 1}

\* random.randint(lo, hi): an integer of lo..hi, both ends included.  The
\* model draws from the two ends, their neighbours and the midpoint.
Randint(lo, hi) == {lo, lo + 1, (lo + hi) \div 2, hi - 1, hi}

RECURSIVE Join(_, _)
\* sep.join(strings)
Join(sep, strings) ==
    IF strings = <<>> THEN ""
    ELSE IF Len(strings) = 1 THEN strings[1]
    ELSE strings[1] \o sep \o Join(sep, Tail(strings))

\* what print_help writes on standard output
HelpText == "usage: extract_args [-h] ..."

\* a variation of GpuFlag, which C7 must reject
GpuFlagNoElif(ns) ==
    IF ns.dest_80g THEN "--gputype A100 --exclude_40G_A100"
    ELSE IF ns.a100 THEN "--gputype A100"
    ELSE IF ns.dest_3090 THEN "--gputype rtx_3090"
    ELSE IF ns.dest_2080 THEN "--gputype rtx_3090"
    ELSE IF ns.gputype # NoValue THEN "--gputype " \o ns.gputype[1]
    ELSE ""

\* the if/elif chain that sets gpu_flag
GpuFlag(ns) ==
    IF ns.gputype # NoValue /\ ns.gputype[1] # "" THEN "--gputype " \o ns.gputype[1]
    ELSE IF ns.dest_2080 THEN "--gputype rtx_2080"
    ELSE IF ns.dest_3090 THEN "--gputype rtx_3090"
    ELSE IF ns.a100 THEN "--gputype A100"
    ELSE IF ns.dest_80g THEN "--gputype A100 --exclude_40G_A100"
    ELSE ""

\* a variation of OutputArgs with the queue segment first, which C5 must
\* reject
OutputArgsQueueFirst(flag, ns, rest) ==
    <<flag, "-q " \o ns.queue, "-n " \o ns.name,
      "--cmd python " \o ns.runner_script[1]>> \o rest

\* a variation of OutputArgs with the runner segment after the remaining
\* arguments, which C16 must reject
OutputArgsCmdLast(flag, ns, rest) ==
    <<flag, "-n " \o ns.name, "-q " \o ns.queue>> \o rest
      \o <<"--cmd python " \o ns.runner_script[1]>>

\* output_args
OutputArgs(flag, ns, rest) ==
    <<flag, "-n " \o ns.name, "-q " \o ns.queue,
      "--cmd python " \o ns.runner_script[1]>> \o rest

\* the argument strings a command line is made of
Words == <<
    <<"run.py">>, <<"10">>, <<"">>, <<"-j">>, <<"--">>, <<"-h">>,
    <<"--2080">>, <<"--3090">>, <<"--a100">>, <<"--80g">>,
    <<"--gputype", "v100">>, <<"--gputype">>,
    <<"-n", "my_name">>, <<"--name">>, <<PlaceholderName>>,
    <<"-q", "hmem">>, <<"--queue">>, <<"--na">> >>

\* a command line whose runner arguments repeat the --cmd segment
RepeatedCmdArgv == <<"--80g", "run.py", "--cmd", "python", "run.py">>

\* the usage example of the script header
ExampleArgv == <<"./runners/autointerp.py", "--3090", "-n", "my_name", "-j", "10">>

RECURSIVE Flatten(_)
Flatten(ws) == IF ws = <<>> THEN <<>> ELSE Head(ws) \o Flatten(Tail(ws))

\* every command line of at most MaxArgs words
CommandLines ==
    {Flatten([i \in DOMAIN c |-> Words[c[i]]]) :
        c \in UNION {[1..n -> DOMAIN Words] : n \in 0..MaxArgs}}

\* a full command line (GPU option, name, queue, runner script and a runner
\* argument) with its five parts in every order
FullWords == << <<"--80g">>, <<"-n", "my_name">>, <<"-q", "hmem">>, <<"run.py">>, <<"-j">> >>

FullCommandLines ==
    {Flatten([i \in 1..5 |-> FullWords[p[i]]]) :
        p \in {f \in [1..5 -> 1..5] : \A x, y \in 1..5 : x # y => f[x] # f[y]}}

InitArgs ==
    /\ argv \in CommandLines \cup FullCommandLines \cup {ExampleArgv, RepeatedCmdArgv}
    /\ args = None /\ remaining_args = <<>> /\ gpu_flag = None
    /\ stdout = <<>> /\ exit_code = None
    /\ ea_pc = "parse"
    /\ JacIdle
    /\ DlIdle
    /\ SyncIdle /\ AgIdle /\ SwIdle

\* line 31: args, remaining_args = parser.parse_known_args()
ParseArgs ==
    /\ ea_pc = "parse"
    /\ LET r == ParseKnownArgs(argv)
       IN  CASE r.status = "error" ->
                  /\ exit_code' = 2 /\ ea_pc' = "exit"
                  /\ UNCHANGED <<args, remaining_args, stdout>>
             [] r.status = "help" ->
                  /\ stdout' = Append(stdout, HelpText)
                  /\ exit_code' = 0 /\ ea_pc' = "exit"
                  /\ UNCHANGED <<args, remaining_args>>
             [] r.status = "ok" ->
                  /\ args' = r.namespace /\ remaining_args' = r.extras
                  /\ ea_pc' = "gpu_flag"
                  /\ UNCHANGED <<stdout, exit_code>>
    /\ UNCHANGED <<argv, gpu_flag>>
    /\ UNCHANGED <<jacVars, dlVars, syncVars, agVars, swVars>>

\* lines 33-44
SetGpuFlag ==
    /\ ea_pc = "gpu_flag"
    /\ gpu_flag' = GpuFlag(args)
    /\ ea_pc' = "name"
    /\ UNCHANGED <<argv, args, remaining_args, stdout, exit_code>>
    /\ UNCHANGED <<jacVars, dlVars, syncVars, agVars, swVars>>

\* a variation of NameUnchanged that always appends a random id, which C9
\* must reject
NameUnchangedAlways(ns) == TRUE

\* line 47: "if the user didn't change the run name"
NameUnchanged(ns) == ns.name = PlaceholderName

\* lines 46-48: a random id replaces the default name
SetName ==
    /\ ea_pc = "name"
    /\ IF NameUnchanged(args)
       THEN \E id \in Randint(RandLo, RandHi) :
                args' = [args EXCEPT !.name = "jsae" \o IntToStr(id)]
       ELSE UNCHANGED args
    /\ ea_pc' = "print"
    /\ UNCHANGED <<argv, remaining_args, gpu_flag, stdout, exit_code>>
    /\ UNCHANGED <<jacVars, dlVars, syncVars, agVars, swVars>>

\* lines 50-59: print(" ".join(output_args)), then the script ends
PrintCommand ==
    /\ ea_pc = "print"
    /\ stdout' = Append(stdout, Join(" ", OutputArgs(gpu_flag, args, remaining_args)))
    /\ exit_code' = 0
    /\ ea_pc' = "exit"
    /\ UNCHANGED <<argv, args, remaining_args, gpu_flag>>
    /\ UNCHANGED <<jacVars, dlVars, syncVars, agVars, swVars>>

NextArgs == ParseArgs \/ SetGpuFlag \/ SetName \/ PrintCommand

SpecArgs == InitArgs /\ [][NextArgs]_vars

---------------------------------------------------------------------------
(* Claims about hpc_utils/extract_args *)

\* the script has ended
Exited == ea_pc = "exit"

\* the script has ended after printing its command
Printed == ea_pc = "exit" /\ gpu_flag # None

EndsWith(s, p) == Len(p) <= Len(s) /\ SubSeq(s, Len(s) - Len(p) + 1, Len(s)) = p

RECURSIVE CountToken(_, _, _)
\* number of the space-separated tokens of s, from position i on, equal to tok
CountToken(s, tok, i) ==
    IF i > Len(s) + 1 THEN 0
    ELSE LET ends == {j \in i..Len(s) : Char(s, j) = " "}
             e    == IF ends = {} THEN Len(s) + 1
                     ELSE CHOOSE j \in ends : \A x \in ends : j <= x
         IN  (IF SubSeq(s, i, e - 1) = tok THEN 1 ELSE 0) + CountToken(s, tok, e + 1)

RECURSIVE SpacePrefixed(_)
\* the strings, each preceded by one space
SpacePrefixed(strings) ==
    IF strings = <<>> THEN "" ELSE " " \o Head(strings) \o SpacePrefixed(Tail(strings))

\* positions of the command line where an option of the given dests stands as
\* an option (before any '--')
OptionPositions(a, dests) ==
    {i \in 1..Len(a) : i < FirstDashDash(a) /\ ParseOptional(a[i]).kind = "O"
                       /\ ParseOptional(a[i]).action \in dests}

Last(S) == CHOOSE i \in S : \A j \in S : j <= i

\* the value given with the option at position i: joined to it, or the next
\* argument
ValueAt(a, i) ==
    IF ParseOptional(a[i]).explicit_arg # NoValue THEN ParseOptional(a[i]).explicit_arg[1]
    ELSE a[i + 1]

\* C3: the usage example of the script header: the arguments
\* ./runners/autointerp.py --3090 -n my_name -j 10 print exactly
\* --gputype rtx_3090 -n my_name --cmd python ./runners/autointerp.py -j 10
C3_UsageExample ==
    (Exited /\ argv = ExampleArgv) =>
        stdout = <<"--gputype rtx_3090 -n my_name --cmd python ./runners/autointerp.py -j 10">>

RECURSIVE RunnerArguments(_)
\* the command line without the GPU options, the job name option and the
\* queue option (each with its value)
RunnerArguments(a) ==
    IF a = <<>> THEN <<>>
    ELSE IF Head(a) \in {"--gputype", "-n", "--name", "-q", "--queue"}
         THEN RunnerArguments(SubSeq(a, 3, Len(a)))
    ELSE IF Head(a) \in {"--2080", "--3090", "--a100", "--80g"}
         THEN RunnerArguments(Tail(a))
    ELSE <<Head(a)>> \o RunnerArguments(Tail(a))

\* C4: every argument that is not a GPU option, the job name option or the
\* queue option is passed to the runner script: with the runner script given
\* first, a run that ends normally has printed one command, which ends with
\* --cmd python <runner_script> followed by all those arguments, unchanged,
\* once each and in their order.
C4_RestPassedToRunner ==
    (Exited /\ exit_code = 0 /\ argv # <<>> /\ argv[1] = "run.py") =>
        /\ Len(stdout) = 1
        /\ EndsWith(stdout[1], "--cmd python " \o Join(" ", RunnerArguments(argv)))

GpuOptionsGiven(a) == {ParseOptional(a[i]).action : i \in OptionPositions(a, GpuGroup)}

\* C6, as stated: with two or more of the GPU options supplied the script
\* ends with an argument error and prints nothing on standard output, and no
\* printed line ever holds more than one --gputype token.
C6_GpuOptionsExclusive ==
    Exited =>
        /\ Cardinality(GpuOptionsGiven(argv)) >= 2 => (exit_code = 2 /\ stdout = <<>>)
        /\ \A l \in 1..Len(stdout) : CountToken(stdout[l], "--gputype", 1) <= 1

\* C6, amended: with two different GPU options standing as options, no
\* command is printed: the script ends with an argument error, or with the
\* help text when a help option is on the command line; and a printed
\* command has its GPU flag from at most one GPU option.
C6_ExclusiveOrHelp ==
    Exited =>
        /\ Cardinality(GpuOptionsGiven(argv)) >= 2 =>
              \/ exit_code = 2 /\ stdout = <<>>
              \/ /\ exit_code = 0 /\ stdout = <<HelpText>>
                 /\ OptionPositions(argv, {"help"}) # {}
        /\ Printed =>
              Cardinality({d \in GpuGroup \ {"gputype"} : args[d]}
                          \cup (IF args.gputype # NoValue THEN {"gputype"} ELSE {})) <= 1

\* C6 witness: two different GPU options after the runner script ended the
\* script with an argument error and nothing printed.
C6_Witness ==
    /\ Exited
    /\ argv = <<"run.py", "--3090", "--a100">>
    /\ exit_code = 2
    /\ stdout = <<>>

\* the GPU flag the claim's table gives for a GPU option; an empty GPU type
\* is outside the table
TableGpuFlag(a, i) ==
    CASE ParseOptional(a[i]).action = "gputype"   -> "--gputype " \o ValueAt(a, i)
      [] ParseOptional(a[i]).action = "dest_2080" -> "--gputype rtx_2080"
      [] ParseOptional(a[i]).action = "dest_3090" -> "--gputype rtx_3090"
      [] ParseOptional(a[i]).action = "a100"      -> "--gputype A100"
      [] ParseOptional(a[i]).action = "dest_80g"  -> "--gputype A100 --exclude_40G_A100"

IsJsaeId(s) ==
    /\ Len(s) = 8
    /\ SubSeq(s, 1, 4) = "jsae"
    /\ \A i \in 5..8 : IsDigit(Char(s, i))
    /\ Char(s, 5) # "0"

\* s occurs in t
Occurs(s, t) == \E i \in 1..(Len(t) - Len(s) + 1) : SubSeq(t, i, i + Len(s) - 1) = s

\* C8, as stated: without -n/--name the emitted job name is jsae followed by
\* an integer of 1000..9999, and the placeholder jsae[UNIQUE-ID] never
\* appears in a printed command.
C8_RandomNameNoPlaceholder ==
    Printed =>
        /\ OptionPositions(argv, {"name"}) = {} =>
              (IsJsaeId(args.name) /\ StartsWith(stdout[1], gpu_flag \o " -n " \o args.name \o " -q "))
        /\ ~Occurs(PlaceholderName, stdout[1])

\* C8, amended: without -n/--name the emitted job name is jsae followed by
\* an integer of 1000..9999, and the emitted job name is never the
\* placeholder jsae[UNIQUE-ID].
C8_RandomName ==
    Printed =>
        /\ OptionPositions(argv, {"name"}) = {} => IsJsaeId(args.name)
        /\ args.name # PlaceholderName
        /\ StartsWith(stdout[1], gpu_flag \o " -n " \o args.name \o " -q ")

\* C8 witness: a command line without a name option printed a command whose
\* job name carries the largest id.
C8_Witness ==
    /\ Printed
    /\ OptionPositions(argv, {"name"}) = {}
    /\ args.name = "jsae9999"
    /\ StartsWith(stdout[1], " -n jsae9999 -q cnu ")

RECURSIVE Split(_, _)
\* s.split(" ") from position i on
Split(s, i) ==
    LET ends == {j \in i..Len(s) : Char(s, j) = " "}
        e    == IF ends = {} THEN Len(s) + 1
                ELSE CHOOSE j \in ends : \A x \in ends : j <= x
    IN  IF ends = {} THEN <<SubSeq(s, i, Len(s))>>
        ELSE <<SubSeq(s, i, e - 1)>> \o Split(s, e + 1)

\* number of places where the tokens of seg stand in a row in toks
CountSegment(toks, seg) ==
    Cardinality({i \in 1..Len(toks) :
                    i + Len(seg) - 1 <= Len(toks) /\ SubSeq(toks, i, i + Len(seg) - 1) = seg})

RECURSIVE FirstPositionalFrom(_, _)
\* the first positional token of the command line from index i on, as <<s>>,
\* or <<>>: an option and the value it takes are passed over, everything
\* after '--' is positional
FirstPositionalFrom(a, i) ==
    IF i > Len(a) THEN NoValue
    ELSE IF a[i] = "--" THEN (IF i < Len(a) THEN <<a[i + 1]>> ELSE NoValue)
    ELSE IF ParseOptional(a[i]).kind = "A" THEN <<a[i]>>
    ELSE IF /\ ParseOptional(a[i]).action # None
            /\ Nargs(ParseOptional(a[i]).action) = 1
            /\ ParseOptional(a[i]).explicit_arg = NoValue
         THEN FirstPositionalFrom(a, i + 2)
    ELSE FirstPositionalFrom(a, i + 1)

FirstPositional(a) == FirstPositionalFrom(a, 1)

\* the tokens of the --cmd segment for a runner script
CmdSegment(runner) == <<"--cmd", "python", runner>>

\* C16, as stated: without a runner_script the script ends with an argument
\* error, a non-zero exit status and nothing on standard output; a printed
\* command has exactly one --cmd python <runner_script> segment, for the
\* first positional token of the command line.
C16_OneCmdSegment ==
    Exited =>
        /\ FirstPositional(argv) = NoValue => exit_code # 0 /\ stdout = <<>>
        /\ Printed =>
              /\ FirstPositional(argv) # NoValue
              /\ CountSegment(Split(stdout[1], 1), CmdSegment(FirstPositional(argv)[1])) = 1

\* C16, amended: without a runner_script no command is printed: the script
\* ends with exit status 2 and nothing on standard output, or, when a help
\* option is given, with the help text and exit status 0.  A printed command
\* has the segment --cmd python <runner_script>, for the first positional
\* token of the command line, right after the -q segment; the segment occurs
\* once more for every time the remaining arguments repeat it.
C16_CmdSegmentAfterQueue ==
    Exited =>
        /\ FirstPositional(argv) = NoValue =>
              \/ exit_code = 2 /\ stdout = <<>>
              \/ /\ exit_code = 0 /\ stdout = <<HelpText>>
                 /\ OptionPositions(argv, {"help"}) # {}
        /\ Printed =>
              /\ FirstPositional(argv) # NoValue
              /\ LET runner == FirstPositional(argv)[1]
                     head   == Join(" ", <<gpu_flag, "-n " \o args.name, "-q " \o args.queue,
                                           "--cmd python " \o runner>>)
                 IN  /\ stdout = <<head \o SpacePrefixed(remaining_args)>>
                     /\ CountSegment(Split(stdout[1], 1), CmdSegment(runner))
                           = 1 + CountSegment(Split(SpacePrefixed(remaining_args), 1),
                                              CmdSegment(runner))

\* C16 witness: a command was printed for a runner script that is not the
\* first argument, and the remaining arguments repeat the segment.
C16_Witness ==
    /\ Printed
    /\ FirstPositional(argv) # NoValue
    /\ argv[1] # FirstPositional(argv)[1]
    /\ CountSegment(Split(stdout[1], 1), CmdSegment(FirstPositional(argv)[1])) = 2

---------------------------------------------------------------------------
(* The wandb artifact download script *)

MaxColls == 2
MaxVersions == 2

\* a variation of type_names with another order, which C17 must reject
type_names_reordered == <<"log_feature_sparsity", "model", "wandb-history">>

\* type_names
type_names == <<"model", "log_feature_sparsity", "wandb-history">>

\* an artifact type a wandb project can hold that type_names does not list
OtherType == "dataset"

RECURSIVE SortedSeq(_)
\* the numbers of S in increasing order
SortedSeq(S) ==
    IF S = {} THEN <<>>
    ELSE LET m == CHOOSE x \in S : \A y \in S : x <= y
         IN  <<m>> \o SortedSeq(S \ {m})

\* the projects of the model: each type of type_names holds up to MaxColls
\* collections of 1..MaxVersions versions each (the same number within a
\* type), and the project may hold one artifact of another type
Projects ==
    {UNION {{[type |-> type_names[t], coll |-> c, version |-> v] :
                c \in 1..shape[t].ncolls, v \in 0..(shape[t].nversions - 1)} :
            t \in 1..Len(type_names)}
     \cup other :
        shape \in [1..Len(type_names) ->
                      [ncolls : 0..MaxColls, nversions : 1..MaxVersions]],
        other \in {{}, {[type |-> OtherType, coll |-> 1, version |-> 0]}}}

\* api.artifact_type(type_name, project) finds the type only if the project
\* holds it
TypeExists(p, type_name) == \E a \in p : a.type = type_name

\* .collections(per_page=500): the collections of the type, page after page
Collections(p, type_name) == SortedSeq({a.coll : a \in {x \in p : x.type = type_name}})

\* coll.artifacts(per_page=500): the versions of the collection
Artifacts(p, type_name, coll) ==
    LET versions == SortedSeq({a.version : a \in {x \in p : x.type = type_name /\ x.coll = coll}})
    IN  [i \in 1..Len(versions) |->
            [type |-> type_name, coll |-> coll, version |-> versions[i]]]

InitDl ==
    /\ project \in Projects
    /\ type_idx = 1
    /\ colls = <<>> /\ artifacts = <<>>
    /\ called = <<>> /\ downloaded = {} /\ in_progress = {}
    /\ dl_stdout = <<>>
    /\ dl_pc = "for_type"
    /\ JacIdle
    /\ EaIdle
    /\ SyncIdle /\ AgIdle /\ SwIdle

\* lines 25-26: the next type_name and its collections; the API call raises
\* when the project has no such type, and may raise on any request
ForType ==
    /\ dl_pc = "for_type"
    /\ type_idx <= Len(type_names)
    /\ \/ /\ TypeExists(project, type_names[type_idx])
          /\ colls' = Collections(project, type_names[type_idx])
          /\ dl_pc' = "for_coll"
       \/ /\ dl_pc' = "raised"
          /\ UNCHANGED colls
    /\ UNCHANGED <<project, type_idx, artifacts, called, downloaded, in_progress, dl_stdout>>
    /\ UNCHANGED <<jacVars, eaVars, syncVars, agVars, swVars>>

\* lines 29-30: the next collection and its artifacts, or the end of the
\* loop over the collections
ForColl ==
    /\ dl_pc = "for_coll"
    /\ IF colls = <<>>
       THEN /\ type_idx' = type_idx + 1
            /\ dl_pc' = "for_type"
            /\ UNCHANGED <<colls, artifacts>>
       ELSE \/ /\ artifacts' = Artifacts(project, type_names[type_idx], Head(colls))
               /\ colls' = Tail(colls)
               /\ dl_pc' = "for_artifact"
               /\ UNCHANGED type_idx
            \/ /\ dl_pc' = "raised"
               /\ UNCHANGED <<colls, artifacts, type_idx>>
    /\ UNCHANGED <<project, called, downloaded, in_progress, dl_stdout>>
    /\ UNCHANGED <<jacVars, eaVars, syncVars, agVars, swVars>>

\* a variation of Remaining for a loop that tries an artifact again, which
\* C12 must reject
RemainingRetry(arts) == arts

\* the artifacts the loop of line 30 has yet to visit once it has taken the
\* first of arts: the iterator never yields an artifact again
Remaining(arts) == Tail(arts)

\* a variation of DownloadRaised for a script that catches the exception and
\* goes on with the next artifact, which C11 must reject
DownloadRaisedCaught == "for_artifact"

\* where the script goes when artifact.download() raises: nothing catches
\* the exception, so the script ends with a traceback
DownloadRaised == "raised"

\* lines 30-31: the loop takes the next artifact and calls
\* artifact.download() on it, or the loop over the artifacts ends
ForArtifact ==
    /\ dl_pc = "for_artifact"
    /\ IF artifacts = <<>>
       THEN /\ dl_pc' = "for_coll"
            /\ UNCHANGED <<artifacts, called, in_progress>>
       ELSE /\ called' = Append(called, Head(artifacts))
            /\ in_progress' = in_progress \cup {Head(artifacts)}
            /\ artifacts' = Remaining(artifacts)
            /\ dl_pc' = "download"
    /\ UNCHANGED <<project, type_idx, colls, downloaded, dl_stdout>>
    /\ UNCHANGED <<jacVars, eaVars, syncVars, agVars, swVars>>

\* line 31: the artifact.download() call ends: it returns, and the loop goes
\* on, or it raises
Download ==
    /\ dl_pc = "download"
    /\ in_progress' = {}
    /\ \/ /\ downloaded' = downloaded \cup in_progress
          /\ dl_pc' = "for_artifact"
       \/ /\ dl_pc' = DownloadRaised
          /\ UNCHANGED downloaded
    /\ UNCHANGED <<project, type_idx, colls, artifacts, called, dl_stdout>>
    /\ UNCHANGED <<jacVars, eaVars, syncVars, agVars, swVars>>

\* line 34: print("Downloaded all artifacts")
PrintDownloaded ==
    /\ dl_pc = "for_type"
    /\ type_idx > Len(type_names)
    /\ dl_stdout' = Append(dl_stdout, "Downloaded all artifacts")
    /\ dl_pc' = "done"
    /\ UNCHANGED <<project, type_idx, colls, artifacts, called, downloaded, in_progress>>
    /\ UNCHANGED <<jacVars, eaVars, syncVars, agVars, swVars>>

NextDl == ForType \/ ForColl \/ ForArtifact \/ Download \/ PrintDownloaded

SpecDl == InitDl /\ [][NextDl]_vars

---------------------------------------------------------------------------
(* Claims about the download script *)

\* C10: when the script finishes without error, download() has been called
\* on every artifact stored in the project, of any type, in every collection
\* and of every version.
C10_AllArtifactsDownloaded ==
    dl_pc = "done" =>
        \A a \in project : \E i \in 1..Len(called) : called[i] = a

\* the artifacts of the project the loops enumerate
Enumerated(p) == {a \in p : \E t \in 1..Len(type_names) : type_names[t] = a.type}

\* download() was called on the artifact and raised
Failed(a) == (\E i \in 1..Len(called) : called[i] = a) /\ a \notin downloaded \cup in_progress

\* C11: `Downloaded all artifacts` is printed only after the download() call
\* of every enumerated artifact has returned, and never in a run where a
\* download() call raised.
C11_PrintedOnlyAfterAllReturned ==
    /\ dl_stdout # <<>> =>
          /\ dl_stdout = <<"Downloaded all artifacts">>
          /\ in_progress = {}
          /\ \A a \in Enumerated(project) : a \in downloaded
          /\ \A i \in 1..Len(called) : called[i] \in downloaded
    /\ (\E a \in project : Failed(a)) => dl_stdout = <<>>
    /\ dl_pc = "raised" => dl_stdout = <<>>

\* C11 witness: the message was printed after four downloads returned.
C11_Witness ==
    /\ dl_stdout = <<"Downloaded all artifacts">>
    /\ Cardinality(downloaded) >= 4

\* C12: download() is attempted at most once per enumerated artifact, and the
\* first download() or enumeration call that fails aborts the script: the
\* failed call is the last one made and the script takes no further step.
C12_NoRetryNoRecovery ==
    /\ \A i, j \in 1..Len(called) : i # j => called[i] # called[j]
    /\ \A i \in 1..Len(called) :
          Failed(called[i]) => (i = Len(called) /\ dl_pc = "raised")
    /\ dl_pc = "raised" => ~ENABLED NextDl

\* C12 witness: the second download() raised and an enumerated artifact
\* later in the iteration order was never attempted.
C12_Witness ==
    /\ dl_pc = "raised"
    /\ Len(called) = 2
    /\ Failed(called[2])
    /\ called[1] \in downloaded
    /\ \E a \in Enumerated(project) : \A i \in 1..Len(called) : called[i] # a

\* position of an artifact type in the order model, log_feature_sparsity,
\* wandb-history
TypeRank(t) ==
    CASE t = "model" -> 1
      [] t = "log_feature_sparsity" -> 2
      [] t = "wandb-history" -> 3
      [] OTHER -> 4

\* C17: the types are processed in the order model, log_feature_sparsity,
\* wandb-history: download() is called on an artifact of a later type only
\* after every artifact of every collection of the earlier types has been
\* downloaded, and at most one download is in progress at any time.
C17_TypesSequential ==
    /\ \A i \in 1..Len(called) : \A a \in project :
          TypeRank(a.type) < TypeRank(called[i].type) => a \in downloaded
    /\ \A i, j \in 1..Len(called) :
          i < j => TypeRank(called[i].type) <= TypeRank(called[j].type)
    /\ Cardinality(in_progress) <= 1

\* C17 witness: a download of the last type is in progress after artifacts
\* of the two earlier types were downloaded.
C17_Witness ==
    /\ \E a \in in_progress : a.type = "wandb-history"
    /\ \E a \in downloaded : a.type = "model"
    /\ \E a \in downloaded : a.type = "log_feature_sparsity"

---------------------------------------------------------------------------
(* The sync script (zsh) *)

MaxLine == 2

\* the characters the model types at the prompt
TypedChars == {"y", "n", "Y", " ", "\\"}

RECURSIVE TextsOfLen(_)
TextsOfLen(n) ==
    IF n = 0 THEN {""} ELSE {t \o c : t \in TextsOfLen(n - 1), c \in TypedChars}

\* what the user can type before the newline or the end of input
Texts == UNION {TextsOfLen(n) : n \in 0..MaxLine} \cup {"yes", "no"}

\* what echo -n writes: the prompt, without a newline (<ESC> stands for the
\* escape character echo makes of \e)
PromptText ==
    "Running this will <ESC>[31moverwrite<ESC>[0m the code that is currently on BluePebble. Are you sure you want to continue? ([y]/n) "

RECURSIVE Unquote(_, _)
\* read without -r: a backslash quotes the character after it and is removed
\* (a backslash that ends the text is removed); the characters of text from
\* position i on, each with whether it was quoted
Unquote(text, i) ==
    IF i > Len(text) THEN <<>>
    ELSE IF Char(text, i) = "\\"
         THEN IF i = Len(text) THEN <<>>
              ELSE <<[c |-> Char(text, i + 1), quoted |-> TRUE]>> \o Unquote(text, i + 2)
    ELSE <<[c |-> Char(text, i), quoted |-> FALSE]>> \o Unquote(text, i + 1)

\* an unquoted white-space character of $IFS
IsIfsSpace(x) == ~x.quoted /\ x.c \in {" ", "\t"}

RECURSIVE StripLeft(_)
StripLeft(cs) ==
    IF cs # <<>> /\ IsIfsSpace(Head(cs)) THEN StripLeft(Tail(cs)) ELSE cs

RECURSIVE StripRight(_)
StripRight(cs) ==
    IF cs # <<>> /\ IsIfsSpace(cs[Len(cs)]) THEN StripRight(SubSeq(cs, 1, Len(cs) - 1))
    ELSE cs

RECURSIVE JoinChars(_)
JoinChars(cs) == IF cs = <<>> THEN "" ELSE Head(cs).c \o JoinChars(Tail(cs))

\* read response: the line with its backslashes processed and the $IFS white
\* space at its ends removed; at the end of input, what was typed so far
Read(text) == JoinChars(StripRight(StripLeft(Unquote(text, 1))))

\* a variation of Refused that refuses only n, which C13 must reject
RefusedOnlyN(r) == r = "n"

\* [[ $response != "y" && $response != "" ]]
Refused(r) == r # "y" /\ r # ""

\* exit statuses of rsync: success, partial transfer, connection failure
RsyncStatus == {0, 23, 255}

InitSync ==
    /\ typed \in [text : Texts, newline : BOOLEAN]
    /\ response = ""
    /\ rsync_started = FALSE
    /\ sync_stdout = ""
    /\ sync_exit = None
    /\ sync_pc = "echo"
    /\ JacIdle /\ EaIdle /\ DlIdle /\ AgIdle /\ SwIdle

\* lines 62-63: the prompt
Echo ==
    /\ sync_pc = "echo"
    /\ sync_stdout' = sync_stdout \o PromptText
    /\ sync_pc' = "read"
    /\ UNCHANGED <<typed, response, rsync_started, sync_exit>>
    /\ UNCHANGED <<jacVars, eaVars, dlVars, agVars, swVars>>

\* line 64: read response (its status is not looked at)
ReadResponse ==
    /\ sync_pc = "read"
    /\ response' = Read(typed.text)
    /\ sync_pc' = "if"
    /\ UNCHANGED <<typed, rsync_started, sync_stdout, sync_exit>>
    /\ UNCHANGED <<jacVars, eaVars, dlVars, agVars, swVars>>

\* lines 65-67: exit 1 unless the response is y or empty
Confirm ==
    /\ sync_pc = "if"
    /\ IF Refused(response)
       THEN sync_exit' = 1 /\ sync_pc' = "exit"
       ELSE sync_pc' = "rsync" /\ UNCHANGED sync_exit
    /\ UNCHANGED <<typed, response, rsync_started, sync_stdout>>
    /\ UNCHANGED <<jacVars, eaVars, dlVars, agVars, swVars>>

\* lines 69-74: SCRIPT_DIR, PARENT_DIR and rsync, whose status is the
\* script's
Rsync ==
    /\ sync_pc = "rsync"
    /\ rsync_started' = TRUE
    /\ sync_exit' \in RsyncStatus
    /\ sync_pc' = "exit"
    /\ UNCHANGED <<typed, response, sync_stdout>>
    /\ UNCHANGED <<jacVars, eaVars, dlVars, agVars, swVars>>

NextSync == Echo \/ ReadResponse \/ Confirm \/ Rsync

SpecSync == InitSync /\ [][NextSync]_vars

---------------------------------------------------------------------------
(* Claims about the sync script *)

\* C13: rsync is started only after the prompt was answered, and only if the
\* response read is exactly y or the empty string; for any other response
\* (n, Y and yes among them) the script exits with status 1 and rsync is
\* never started.
C13_RsyncOnlyAfterConfirmation ==
    /\ rsync_started =>
          /\ sync_pc = "exit"
          /\ sync_stdout = PromptText
          /\ response = Read(typed.text)
          /\ response \in {"y", ""}
    /\ sync_pc = "exit" =>
          IF response \in {"y", ""}
          THEN rsync_started /\ sync_exit \in RsyncStatus
          ELSE ~rsync_started /\ sync_exit = 1
    /\ (sync_pc = "exit" /\ typed.text \in {"n", "Y", "yes"}) =>
          (~rsync_started /\ sync_exit = 1)

\* C13 witness: the user pressed return at the prompt and rsync was started.
C13_Witness ==
    /\ sync_pc = "exit"
    /\ typed = [text |-> "", newline |-> TRUE]
    /\ response = ""
    /\ rsync_started

---------------------------------------------------------------------------
(* The MLPWithActGrads notebook *)

\* cfg.act_fn of the models: an activation without and one with a layer norm
ActFns == {"relu", "solu_ln"}

\* cfg.is_layer_norm_activation(): the name of the activation ends with _ln
IsLayerNormActivation(cfg) == EndsWith(cfg.act_fn, "_ln")

\* batch_addmm(bias, weight, x): x @ weight + bias, weight is (in, out)
BatchAddmm(bias, weight, x) ==
    Tabulate([t \in DOMAIN x |-> Tabulate([o \in DOMAIN bias |->
        SumTo([i \in DOMAIN weight |-> x[t][i] * weight[i][o]], Len(weight)) + bias[o]],
        Len(bias))], Len(x))

\* the largest entry of a row
RowMax(row) == CHOOSE v \in {row[j] : j \in DOMAIN row} : \A j \in DOMAIN row : row[j] <= v

\* self.act_fn on one row.  relu is exact; solu (x * softmax(x)) has no
\* integer form and is stood for by x where x is the row's largest entry and
\* 0 elsewhere.
ActFn(cfg, row) ==
    IF cfg.act_fn = "relu" THEN Tabulate([j \in DOMAIN row |-> Relu(row[j])], Len(row))
    ELSE Tabulate([j \in DOMAIN row |-> IF row[j] = RowMax(row) THEN row[j] ELSE 0], Len(row))

\* self.ln on one row, stood for by its centring part: each entry minus the
\* mean, times the row length
LayerNorm(row) ==
    Tabulate([j \in DOMAIN row |-> Len(row) * row[j] - SumTo(row, Len(row))], Len(row))

\* the forward of the transformer_lens MLP the notebook subclasses
\* (original_mlp); hook points without hooks return their argument
OriginalForward(cfg, params, x) ==
    LET pre_act  == BatchAddmm(params.b_in, params.W_in, x)
        post_act == IF IsLayerNormActivation(cfg)
                    THEN Tabulate([t \in DOMAIN pre_act |->
                             LayerNorm(ActFn(cfg, pre_act[t]))], Len(pre_act))
                    ELSE Tabulate([t \in DOMAIN pre_act |-> ActFn(cfg, pre_act[t])],
                                  Len(pre_act))
    IN  BatchAddmm(params.b_out, params.W_out, post_act)

\* what a call returns or raises
Raised(name) == [raised |-> name, returns |-> "nothing", output |-> <<>>, grad_of_act |-> <<>>]

\* a variation of MLPWithActGradsForward that overwrites post_act with the
\* gradient, which C14 must reject
MLPWithActGradsForwardGradAsPost(cfg, grad_mode, params, x, return_grads) ==
    LET pre_act  == BatchAddmm(params.b_in, params.W_in, x)
        grad_of_act == Tabulate([t \in DOMAIN pre_act |->
                           Tabulate([j \in DOMAIN pre_act[t] |-> ReluGrad(pre_act[t][j])],
                                    Len(pre_act[t]))], Len(pre_act))
        post_act == IF return_grads THEN grad_of_act
                    ELSE Tabulate([t \in DOMAIN pre_act |-> ActFn(cfg, pre_act[t])],
                                  Len(pre_act))
        output   == BatchAddmm(params.b_out, params.W_out, post_act)
    IN  IF IsLayerNormActivation(cfg) THEN Raised("NotImplementedError")
        ELSE IF return_grads /\ ~grad_mode THEN Raised("RuntimeError")
        ELSE IF return_grads
             THEN [raised |-> "", returns |-> "pair", output |-> output,
                   grad_of_act |-> grad_of_act]
        ELSE [raised |-> "", returns |-> "tensor", output |-> output, grad_of_act |-> <<>>]

\* MLPWithActGrads.forward(x, return_act_grads), with the parameters loaded
\* from the state dict.  torch.autograd.grad raises a RuntimeError when
\* post_act has no graph to pre_act, which is the case when gradient mode is
\* off; the parameters of a new module require gradients.
MLPWithActGradsForward(cfg, grad_mode, params, x, return_grads) ==
    LET pre_act  == BatchAddmm(params.b_in, params.W_in, x)
        post_act == Tabulate([t \in DOMAIN pre_act |-> ActFn(cfg, pre_act[t])],
                             Len(pre_act))
        grad_of_act == Tabulate([t \in DOMAIN pre_act |->
                           Tabulate([j \in DOMAIN pre_act[t] |-> ReluGrad(pre_act[t][j])],
                                    Len(pre_act[t]))], Len(pre_act))
        output   == BatchAddmm(params.b_out, params.W_out, post_act)
    IN  IF IsLayerNormActivation(cfg) THEN Raised("NotImplementedError")
        ELSE IF return_grads /\ ~grad_mode THEN Raised("RuntimeError")
        ELSE IF return_grads
             THEN [raised |-> "", returns |-> "pair", output |-> output,
                   grad_of_act |-> grad_of_act]
        ELSE [raised |-> "", returns |-> "tensor", output |-> output, grad_of_act |-> <<>>]

\* torch.allclose(a, b) with the default rtol=1e-5, atol=1e-8, on integers:
\* |a - b| <= atol + rtol * |b|
AllCloseDefault(a, b) ==
    \A t \in DOMAIN a : \A j \in DOMAIN a[t] :
        100000 * Abs(a[t][j] - b[t][j]) <= Abs(b[t][j])

\* the model loaded, the two modules built and resid_mid cached
InitAg ==
    /\ ag_cfg \in [act_fn : ActFns]
    /\ ag_grad_mode \in BOOLEAN
    /\ \E s1, s2, s3 \in 0..MaxSeed :
          ag_state_dict = [W_in  |-> Randn(s1, d_resid, d_mlp),
                           b_in  |-> Randn(s3, 1, d_mlp)[1],
                           W_out |-> Randn(s2, d_mlp, d_resid),
                           b_out |-> Randn(s3 + 1, 1, d_resid)[1]]
    /\ \E s4 \in 0..MaxSeed : resid_mid = Randn(s4, n_tokens, d_resid)
    /\ return_act_grads = FALSE
    /\ original_resid_post = None
    /\ ag_result = None
    /\ ag_pc = "original_mlp"
    /\ JacIdle /\ EaIdle /\ DlIdle /\ SyncIdle /\ SwIdle

\* original_resid_post = original_mlp(resid_mid)
CallOriginalMlp ==
    /\ ag_pc = "original_mlp"
    /\ original_resid_post' = OriginalForward(ag_cfg, ag_state_dict, resid_mid)
    /\ ag_pc' = "mlp_with_grads"
    /\ UNCHANGED <<ag_cfg, ag_grad_mode, ag_state_dict, resid_mid, return_act_grads, ag_result>>
    /\ UNCHANGED <<jacVars, eaVars, dlVars, syncVars, swVars>>

\* mlp_with_grads(resid_mid, return_act_grads=...), with either value of the
\* argument; an exception ends the cell
CallMlpWithGrads ==
    /\ ag_pc = "mlp_with_grads"
    /\ \E r \in BOOLEAN :
          /\ return_act_grads' = r
          /\ ag_result' = MLPWithActGradsForward(ag_cfg, ag_grad_mode, ag_state_dict,
                                                 resid_mid, r)
    /\ ag_pc' = IF ag_result'.raised # "" THEN ag_result'.raised ELSE "assert"
    /\ UNCHANGED <<ag_cfg, ag_grad_mode, ag_state_dict, resid_mid, original_resid_post>>
    /\ UNCHANGED <<jacVars, eaVars, dlVars, syncVars, swVars>>

\* assert torch.allclose(original_resid_post, my_resid_post)
AssertAllClose ==
    /\ ag_pc = "assert"
    /\ ag_pc' = IF AllCloseDefault(original_resid_post, ag_result.output)
                THEN "done" ELSE "AssertionError"
    /\ UNCHANGED <<ag_cfg, ag_grad_mode, ag_state_dict, resid_mid, return_act_grads,
                   original_resid_post, ag_result>>
    /\ UNCHANGED <<jacVars, eaVars, dlVars, syncVars, swVars>>

NextAg == CallOriginalMlp \/ CallMlpWithGrads \/ AssertAllClose

SpecAg == InitAg /\ [][NextAg]_vars

---------------------------------------------------------------------------
(* Claims about the MLPWithActGrads notebook *)

\* the mlp_with_grads call has ended
WithGradsCalled == ag_pc \notin {"idle", "original_mlp", "mlp_with_grads"}

---------------------------------------------------------------------------
(* The pipelines that apply an SAE before and an SAE after the MLP *)

\* the cells and functions that run the first SAE, the MLP and the second
\* SAE: the two cells of the reference sheet, sandwich, the toy notebook's
\* get_jacobian_fast and the inner loop of run_ablation_experiment
Pipelines == {"reference", "reference_wrong", "sandwich", "toy", "ablation"}

\* what each pipeline passes to the MLP: the original activations `acts`,
\* the first SAE's reconstruction, or the activations minus the decoder
\* direction of the input latent in_idx
MlpInput(pipeline, acts, act_reconstr, s1, indices, in_idx) ==
    IF pipeline = "reference" THEN acts
    ELSE IF pipeline = "ablation"
    THEN Tabulate([t \in DOMAIN acts |-> Tabulate([i \in DOMAIN acts[t] |->
             acts[t][i] - s1.W_dec[i][indices[t][in_idx]]], Len(acts[t]))], Len(acts))
    ELSE act_reconstr

\* the latents with `delta` added to latent `slot` of every token
Changed(latents, change) ==
    Tabulate([t \in DOMAIN latents |-> Tabulate([j \in 1..k |->
        IF j = change.slot THEN latents[t][j] + change.delta ELSE latents[t][j]], k)],
        Len(latents))

\* the SAEs, the MLP and the activations loaded.  Every statement of a
\* pipeline is run twice side by side: on the first SAE's latents as
\* computed, and on these latents changed.  The SAEs and the MLP compute as
\* the SAE and MLP classes of the toy notebook; the toy notebook has one SAE
\* for both sides.
InitSw ==
    /\ sw_pipeline \in Pipelines
    /\ \E s1 \in 0..MaxSeed :
          sw_sae1 = [W_enc |-> Randn(s1, d_sae, d_resid), b_enc |-> Zeros(d_sae),
                     W_dec |-> Randn(s1 + 1, d_resid, d_sae), b_dec |-> Zeros(d_resid)]
    /\ \E s2 \in 0..MaxSeed :
          sw_sae2 = IF sw_pipeline = "toy" THEN sw_sae1
                    ELSE [W_enc |-> Randn(s2 + 1, d_sae, d_resid), b_enc |-> Zeros(d_sae),
                          W_dec |-> Randn(s2, d_resid, d_sae), b_dec |-> Zeros(d_resid)]
    /\ \E s3 \in 0..MaxSeed :
          sw_mlp = [W_in  |-> Randn(s3, d_mlp, d_resid), b_in  |-> Zeros(d_mlp),
                    W_out |-> Randn(s3 + 1, d_resid, d_mlp), b_out |-> Zeros(d_resid)]
    /\ \E s4 \in 0..MaxSeed : sw_acts = Randn(s4, n_tokens, d_resid)
    /\ sw_change \in [slot : 1..k, delta : {-1, 1}]
    /\ sw_acts1 = None /\ sw_act_reconstr = None
    /\ sw_mlp_in = None /\ sw_mlp_out = None /\ sw_acts2 = None
    /\ sw_pc = "encode1"
    /\ JacIdle /\ EaIdle /\ DlIdle /\ SyncIdle /\ AgIdle

\* sae_acts1 = sae_pair.encode(acts, False)
Encode1 ==
    /\ sw_pc = "encode1"
    /\ \E idx \in EncodeIndices(sw_sae1, sw_acts) :
          LET latents == EncodeValues(sw_sae1, sw_acts, idx)
          IN  sw_acts1' = <<[latents |-> latents, indices |-> idx],
                            [latents |-> Changed(latents, sw_change), indices |-> idx]>>
    /\ sw_pc' = "decode1"
    /\ UNCHANGED <<sw_pipeline, sw_sae1, sw_sae2, sw_mlp, sw_acts, sw_change,
                   sw_act_reconstr, sw_mlp_in, sw_mlp_out, sw_acts2>>
    /\ UNCHANGED <<jacVars, eaVars, dlVars, syncVars, agVars>>

\* act_reconstr = sae_pair.decode(sae_acts1, False)
Decode1 ==
    /\ sw_pc = "decode1"
    /\ sw_act_reconstr' =
          <<Decode(sw_sae1, sw_acts1[1].latents, sw_acts1[1].indices),
            Decode(sw_sae1, sw_acts1[2].latents, sw_acts1[2].indices)>>
    /\ sw_pc' = "mlp"
    /\ UNCHANGED <<sw_pipeline, sw_sae1, sw_sae2, sw_mlp, sw_acts, sw_change, sw_acts1,
                   sw_mlp_in, sw_mlp_out, sw_acts2>>
    /\ UNCHANGED <<jacVars, eaVars, dlVars, syncVars, agVars>>

\* mlp_out, _ = mlp_with_grads(...)
MlpWithGrads ==
    /\ sw_pc = "mlp"
    /\ sw_mlp_in' =
          <<MlpInput(sw_pipeline, sw_acts, sw_act_reconstr[1], sw_sae1,
                     sw_acts1[1].indices, sw_change.slot),
            MlpInput(sw_pipeline, sw_acts, sw_act_reconstr[2], sw_sae1,
                     sw_acts1[2].indices, sw_change.slot)>>
    /\ sw_mlp_out' = <<MlpForward(sw_mlp, sw_mlp_in'[1]).out,
                       MlpForward(sw_mlp, sw_mlp_in'[2]).out>>
    /\ sw_pc' = IF sw_pipeline = "reference_wrong" THEN "raise" ELSE "encode2"
    /\ UNCHANGED <<sw_pipeline, sw_sae1, sw_sae2, sw_mlp, sw_acts, sw_change, sw_acts1,
                   sw_act_reconstr, sw_acts2>>
    /\ UNCHANGED <<jacVars, eaVars, dlVars, syncVars, agVars>>

\* raise ValueError("You passed in the wrong thing")
RaiseValueError ==
    /\ sw_pc = "raise"
    /\ sw_pc' = "ValueError"
    /\ UNCHANGED <<sw_pipeline, sw_sae1, sw_sae2, sw_mlp, sw_acts, sw_change, sw_acts1,
                   sw_act_reconstr, sw_mlp_in, sw_mlp_out, sw_acts2>>
    /\ UNCHANGED <<jacVars, eaVars, dlVars, syncVars, agVars>>

\* sae_acts2 = sae_pair.encode(mlp_out, True); the same input gives the
\* same top-k selection
Encode2 ==
    /\ sw_pc = "encode2"
    /\ \E idx_a \in EncodeIndices(sw_sae2, sw_mlp_out[1]) :
       \E idx_b \in EncodeIndices(sw_sae2, sw_mlp_out[2]) :
          /\ sw_mlp_out[1] = sw_mlp_out[2] => idx_a = idx_b
          /\ sw_acts2' = <<[latents |-> EncodeValues(sw_sae2, sw_mlp_out[1], idx_a),
                            indices |-> idx_a],
                           [latents |-> EncodeValues(sw_sae2, sw_mlp_out[2], idx_b),
                            indices |-> idx_b]>>
    /\ sw_pc' = "done"
    /\ UNCHANGED <<sw_pipeline, sw_sae1, sw_sae2, sw_mlp, sw_acts, sw_change, sw_acts1,
                   sw_act_reconstr, sw_mlp_in, sw_mlp_out>>
    /\ UNCHANGED <<jacVars, eaVars, dlVars, syncVars, agVars>>

NextSw == Encode1 \/ Decode1 \/ MlpWithGrads \/ RaiseValueError \/ Encode2

SpecSw == InitSw /\ [][NextSw]_vars

---------------------------------------------------------------------------
(* Claims about the pipelines *)

\* C15: in every pipeline the MLP receives the original activations, never
\* the first SAE's reconstruction, and a change of the first SAE's latents
\* does not change the second SAE's activations.
C15_FirstSaeNotUpstream ==
    sw_pc \in {"encode2", "raise", "ValueError", "done"} =>
        /\ sw_mlp_in[1] = sw_acts
        /\ sw_mlp_in[2] = sw_acts
        /\ sw_pc = "done" => sw_acts2[1] = sw_acts2[2]

====
